---- MODULE Spec2Model ----
(***************************************************************************)
(* Model of alacritty/src/display/window.rs: the Window wrapper around the *)
(* native (winit) window.  The model follows one process: its environment  *)
(* (activation token), the most recently created Window value with its     *)
(* cached fields, the native window behind it, and a record of the last    *)
(* operation with the native calls it issued.                              *)
(***************************************************************************)
EXTENDS Integers, Sequences, FiniteSets

VARIABLES platform, env_token, tokens_placed, used_tokens, win, native, lastOp

vars == <<platform, env_token, tokens_placed, used_tokens, win, native, lastOp>>

\* ---------------------------------------------------------------- bounds
MaxTokens == 1
MaxLine == 1
MaxColumn == 1
MaxPending == 3

\* ------------------------------------------------------- input domains
Platforms == {"x11", "wayland", "macos", "windows"}
Titles == {"Alacritty", "vim"}
Cursors == {"Text", "Pointer"}
Opacities == {50, 100}
FullscreenConfigs == {"None", "Borderless"}
BuildOutcomes == {"ok", "os_error_a", "os_error_b"}
ScaleFactors == {1}
SizeInfos ==
    { [padding_x |-> 0, padding_y |-> 0, cell_width |-> 10, cell_height |-> 20],
      [padding_x |-> 3, padding_y |-> 5, cell_width |-> 7, cell_height |-> 9] }
Points == [line : 0..MaxLine, column : 0..MaxColumn]

NoToken == 0
NoWindow == [none |-> TRUE]
NoNative == [none |-> TRUE]

\* ------------------------------------------------------------- helpers
IsUnix == platform \notin {"macos", "windows"}

RawWindowHandle(p) ==
    CASE p = "x11" -> "Xlib"
      [] p = "wayland" -> "Wayland"
      [] p = "macos" -> "AppKit"
      [] OTHER -> "Win32"

FromOsError(val) == [variant |-> "WindowCreation", inner |-> val]

Call(fn, arg) == <<fn, arg>>

Unit == [unit |-> TRUE]

RECURSIVE NumCalls(_, _)
NumCalls(calls, fn) ==
    IF calls = <<>> THEN 0
    ELSE (IF Head(calls)[1] = fn THEN 1 ELSE 0) + NumCalls(Tail(calls), fn)

Exists == win # NoWindow

Record(name, arg, calls, ret) ==
    [op |-> name, arg |-> arg, calls |-> calls, ret |-> ret,
     twice |-> lastOp.op = name /\ lastOp.arg = arg]

EnvUnchanged == UNCHANGED <<platform, env_token, tokens_placed, used_tokens>>

\* ---------------------------------------------------------------- Init
Init ==
    /\ platform \in Platforms
    /\ env_token \in {NoToken, 1}
    /\ tokens_placed = env_token
    /\ used_tokens = {}
    /\ win = NoWindow
    /\ native = NoNative
    /\ lastOp = [op |-> "start", arg |-> [none |-> TRUE], calls |-> <<>>,
                 ret |-> Unit, twice |-> FALSE]

\* --------------------------------------------------------- Window::new
read_token_from_env == IF IsUnix THEN env_token ELSE NoToken

\* Variant: the token is left in the environment.
reset_activation_token_env_kept(token) == env_token

reset_activation_token_env(token) == IF token # NoToken THEN NoToken ELSE env_token

\* Variant: the window is built visible.
WindowBuilderVisible(title, fullscreen, token) ==
    [title |-> title, visible |-> TRUE, transparent |-> TRUE,
     fullscreen |-> fullscreen, activation_token |-> token]

WindowBuilder(title, fullscreen, token) ==
    [title |-> title, visible |-> FALSE, transparent |-> TRUE,
     fullscreen |-> fullscreen, activation_token |-> token]

NativeBuild(builder) ==
    [title |-> builder.title, visible |-> builder.visible,
     transparent |-> builder.transparent, fullscreen |-> builder.fullscreen,
     activation_token |-> builder.activation_token,
     cursor_icon |-> "Default", cursor_visible |-> TRUE,
     ime_allowed |-> FALSE, ime_purpose |-> "Normal",
     color_space |-> "native", pending_redraws |-> 0]

TransparencyHint(opacity) == opacity < 100

PostBuildCalls(opacity) ==
    <<Call("set_cursor_icon", "Text"), Call("set_ime_allowed", TRUE),
      Call("set_ime_purpose", "Terminal"),
      Call("set_transparent", TransparencyHint(opacity))>>
    \o (IF platform = "macos" THEN <<Call("use_srgb_color_space", "-")>> ELSE <<>>)

\* Variant: the text cursor is cached but never pushed to the native window.
PostBuildNoCursor(n, opacity) ==
    [n EXCEPT !.ime_allowed = TRUE,
              !.ime_purpose = "Terminal",
              !.transparent = TransparencyHint(opacity),
              !.color_space = IF platform = "macos" THEN "sRGB" ELSE @]

PostBuild(n, opacity) ==
    [n EXCEPT !.cursor_icon = "Text", !.ime_allowed = TRUE,
              !.ime_purpose = "Terminal",
              !.transparent = TransparencyHint(opacity),
              !.color_space = IF platform = "macos" THEN "sRGB" ELSE @]

AssembleWindow(title, scale_factor) ==
    [requested_redraw |-> FALSE, title |-> title,
     current_mouse_cursor |-> "Text", mouse_visible |-> TRUE,
     has_frame |-> TRUE, scale_factor |-> scale_factor,
     is_x11 |-> RawWindowHandle(platform) = "Xlib"]

\* Variant: the build error is ignored.
BuildAlwaysSucceeded(outcome) == TRUE

BuildSucceeded(outcome) == outcome = "ok"

New ==
    \E title \in Titles, opacity \in Opacities, fullscreen \in FullscreenConfigs,
       outcome \in BuildOutcomes, scale_factor \in ScaleFactors :
        LET token == read_token_from_env
            builder == WindowBuilder(title, fullscreen, token)
            arg == [title |-> title, opacity |-> opacity,
                    fullscreen |-> fullscreen, outcome |-> outcome,
                    token |-> token]
        IN  /\ env_token' = reset_activation_token_env(token)
            /\ used_tokens' = used_tokens \cup ({token} \ {NoToken})
            /\ UNCHANGED <<platform, tokens_placed>>
            /\ IF BuildSucceeded(outcome)
               THEN /\ native' = PostBuild(NativeBuild(builder), opacity)
                    /\ win' = AssembleWindow(title, scale_factor)
                    /\ lastOp' = Record("new", arg,
                                        <<Call("build", "-")>> \o PostBuildCalls(opacity),
                                        [ok |-> TRUE])
               ELSE /\ UNCHANGED <<native, win>>
                    /\ lastOp' = Record("new", arg, <<Call("build", "-")>>,
                                        [ok |-> FALSE, error |-> FromOsError(outcome)])

\* ------------------------------------------------------------ mutators
set_visible ==
    \E visibility \in BOOLEAN :
        /\ Exists
        /\ native' = [native EXCEPT !.visible = visibility]
        /\ lastOp' = Record("set_visible", [visibility |-> visibility],
                            <<Call("set_visible", visibility)>>, Unit)
        /\ UNCHANGED win
        /\ EnvUnchanged

set_title ==
    \E title \in Titles :
        /\ Exists
        /\ win' = [win EXCEPT !.title = title]
        /\ native' = [native EXCEPT !.title = title]
        /\ lastOp' = Record("set_title", [title |-> title], <<Call("set_title", title)>>, Unit)
        /\ EnvUnchanged

\* Variant: the requested_redraw guard is dropped.
RedrawAlwaysNeeded(w) == TRUE

RedrawNeeded(w) == ~w.requested_redraw

request_redraw ==
    /\ Exists
    /\ IF RedrawNeeded(win)
       THEN /\ win' = [win EXCEPT !.requested_redraw = TRUE]
            /\ native' = [native EXCEPT !.pending_redraws =
                             IF @ < MaxPending THEN @ + 1 ELSE @]
            /\ lastOp' = Record("request_redraw", [none |-> TRUE],
                                <<Call("request_redraw", "-")>>, Unit)
       ELSE /\ UNCHANGED <<win, native>>
            /\ lastOp' = Record("request_redraw", [none |-> TRUE], <<>>, Unit)
    /\ EnvUnchanged

\* Variant: the cached-cursor comparison is dropped.
CursorChangedAlways(w, cursor) == TRUE

CursorChanged(w, cursor) == cursor # w.current_mouse_cursor

set_mouse_cursor ==
    \E cursor \in Cursors :
        /\ Exists
        /\ IF CursorChanged(win, cursor)
           THEN /\ win' = [win EXCEPT !.current_mouse_cursor = cursor]
                /\ native' = [native EXCEPT !.cursor_icon = cursor]
                /\ lastOp' = Record("set_mouse_cursor", [cursor |-> cursor],
                                    <<Call("set_cursor_icon", cursor)>>, Unit)
           ELSE /\ UNCHANGED <<win, native>>
                /\ lastOp' = Record("set_mouse_cursor", [cursor |-> cursor], <<>>, Unit)
        /\ EnvUnchanged

VisibleChanged(w, visible) == visible # w.mouse_visible

set_mouse_visible ==
    \E visible \in BOOLEAN :
        /\ Exists
        /\ IF VisibleChanged(win, visible)
           THEN /\ win' = [win EXCEPT !.mouse_visible = visible]
                /\ native' = [native EXCEPT !.cursor_visible = visible]
                /\ lastOp' = Record("set_mouse_visible", [visible |-> visible],
                                    <<Call("set_cursor_visible", visible)>>, Unit)
           ELSE /\ UNCHANGED <<win, native>>
                /\ lastOp' = Record("set_mouse_visible", [visible |-> visible], <<>>, Unit)
        /\ EnvUnchanged

set_transparent ==
    \E transparent \in BOOLEAN :
        /\ Exists
        /\ native' = [native EXCEPT !.transparent = transparent]
        /\ lastOp' = Record("set_transparent", [transparent |-> transparent],
                            <<Call("set_transparent", transparent)>>, Unit)
        /\ UNCHANGED win
        /\ EnvUnchanged

FullscreenRequest(fullscreen) == IF fullscreen THEN "Borderless" ELSE "None"

set_fullscreen ==
    \E fullscreen \in BOOLEAN :
        /\ Exists
        /\ native' = [native EXCEPT !.fullscreen = FullscreenRequest(fullscreen)]
        /\ lastOp' = Record("set_fullscreen", [fullscreen |-> fullscreen],
                            <<Call("set_fullscreen", FullscreenRequest(fullscreen))>>, Unit)
        /\ UNCHANGED win
        /\ EnvUnchanged

\* Variant: is_some() in place of is_none().
ToggleTargetInverted(n) == n.fullscreen # "None"

ToggleTarget(n) == n.fullscreen = "None"

toggle_fullscreen ==
    /\ Exists
    /\ native' = [native EXCEPT !.fullscreen = FullscreenRequest(ToggleTarget(native))]
    /\ lastOp' = Record("toggle_fullscreen", [none |-> TRUE],
                        <<Call("fullscreen", native.fullscreen),
                          Call("set_fullscreen", FullscreenRequest(ToggleTarget(native)))>>,
                        Unit)
    /\ UNCHANGED win
    /\ EnvUnchanged

\* Variant: the X11 check is dropped.
ImeAlwaysForwarded(w) == TRUE

ImeForwarded(w) == ~w.is_x11

set_ime_allowed ==
    \E allowed \in BOOLEAN :
        /\ Exists
        /\ IF ImeForwarded(win)
           THEN /\ native' = [native EXCEPT !.ime_allowed = allowed]
                /\ lastOp' = Record("set_ime_allowed", [allowed |-> allowed],
                                    <<Call("set_ime_allowed", allowed)>>, Unit)
           ELSE /\ UNCHANGED native
                /\ lastOp' = Record("set_ime_allowed", [allowed |-> allowed], <<>>, Unit)
        /\ UNCHANGED win
        /\ EnvUnchanged

\* Variant: no X11 line offset.
ImeOffsetNone(w) == 0

ImeOffset(w) == IF w.is_x11 THEN 1 ELSE 0

ImeCursorArea(w, point, size) ==
    [x |-> size.padding_x + point.column * size.cell_width,
     y |-> size.padding_y + (point.line + ImeOffset(w)) * size.cell_height,
     width |-> size.cell_width * 2,
     height |-> size.cell_height]

update_ime_position ==
    \E point \in Points, size \in SizeInfos :
        /\ Exists
        /\ lastOp' = Record("update_ime_position", [point |-> point, size |-> size],
                            <<Call("set_ime_cursor_area", ImeCursorArea(win, point, size))>>,
                            Unit)
        /\ UNCHANGED <<win, native>>
        /\ EnvUnchanged

\* ------------------------------------------------ external collaborators
\* The frame-presentation logic clears the public requested_redraw flag once
\* the native redraw request has been served.
ClearRedraw ==
    /\ Exists
    /\ win' = [win EXCEPT !.requested_redraw = FALSE]
    /\ native' = [native EXCEPT !.pending_redraws = 0]
    /\ lastOp' = Record("clear_redraw", [none |-> TRUE], <<>>, Unit)
    /\ EnvUnchanged

\* The desktop session places a fresh activation token in the environment.
PlaceToken ==
    /\ tokens_placed < MaxTokens
    /\ tokens_placed' = tokens_placed + 1
    /\ env_token' = tokens_placed + 1
    /\ lastOp' = Record("place_token", [token |-> tokens_placed + 1], <<>>, Unit)
    /\ UNCHANGED <<platform, used_tokens, win, native>>

Next ==
    \/ New
    \/ set_visible
    \/ set_title
    \/ request_redraw
    \/ set_mouse_cursor
    \/ set_mouse_visible
    \/ set_transparent
    \/ set_fullscreen
    \/ toggle_fullscreen
    \/ set_ime_allowed
    \/ update_ime_position
    \/ ClearRedraw
    \/ PlaceToken

Spec == Init /\ [][Next]_vars

\* ====================================================================
\* Properties
\* ====================================================================
NewStep == lastOp'.op = "new"
SameWindow == Exists /\ ~(lastOp'.op = "new" /\ lastOp'.ret.ok)

\* C1: set_mouse_cursor / set_mouse_visible called with the cached value issue
\* no native call and change nothing; called with a different value they update
\* the cache and issue exactly one native call; the same call twice in a row
\* issues at most one native call in total.
C1_CachedMutators ==
    [][ /\ lastOp'.op = "set_mouse_cursor" =>
              /\ IF lastOp'.arg.cursor = win.current_mouse_cursor
                 THEN lastOp'.calls = <<>> /\ win' = win /\ native' = native
                 ELSE /\ win'.current_mouse_cursor = lastOp'.arg.cursor
                      /\ lastOp'.calls = <<Call("set_cursor_icon", lastOp'.arg.cursor)>>
              /\ lastOp'.twice => Len(lastOp.calls) + Len(lastOp'.calls) <= 1
        /\ lastOp'.op = "set_mouse_visible" =>
              /\ IF lastOp'.arg.visible = win.mouse_visible
                 THEN lastOp'.calls = <<>> /\ win' = win /\ native' = native
                 ELSE /\ win'.mouse_visible = lastOp'.arg.visible
                      /\ lastOp'.calls = <<Call("set_cursor_visible", lastOp'.arg.visible)>>
              /\ lastOp'.twice => Len(lastOp.calls) + Len(lastOp'.calls) <= 1
      ]_vars

C1_Witness ==
    /\ lastOp.op = "set_mouse_cursor"
    /\ lastOp.arg.cursor = "Pointer"
    /\ lastOp.twice
    /\ lastOp.calls = <<>>
    /\ native.cursor_icon = "Pointer"

\* C2: set_title with the cached title issues no native set-title call, and
\* set_title(t) twice in a row issues at most one.  Window::set_title has no
\* comparison with the cached title, so the code violates this.
C2_TitleShortCircuits ==
    [][ lastOp'.op = "set_title" =>
          /\ lastOp'.arg.title = win.title => NumCalls(lastOp'.calls, "set_title") = 0
          /\ lastOp'.twice =>
                NumCalls(lastOp.calls, "set_title")
                  + NumCalls(lastOp'.calls, "set_title") <= 1
      ]_vars

\* C3: request_redraw issues a native request and sets requested_redraw only
\* when the flag is false and is a no-op otherwise; only the external clear
\* resets the flag; at most one native request is outstanding between two
\* clears, and two consecutive request_redraw calls leave exactly one.
C3_RedrawCoalescing ==
    [][ /\ lastOp'.op = "request_redraw" =>
              IF ~win.requested_redraw
              THEN /\ win'.requested_redraw
                   /\ lastOp'.calls = <<Call("request_redraw", "-")>>
              ELSE lastOp'.calls = <<>> /\ win' = win /\ native' = native
        /\ (SameWindow /\ win.requested_redraw /\ ~win'.requested_redraw)
              => lastOp'.op = "clear_redraw"
        /\ win' # NoWindow => native'.pending_redraws <= 1
        /\ (lastOp'.op = "request_redraw" /\ lastOp'.twice)
              => native'.pending_redraws = 1
      ]_vars

C3_Witness ==
    /\ lastOp.op = "request_redraw"
    /\ lastOp.twice
    /\ lastOp.calls = <<>>
    /\ win.requested_redraw
    /\ native.pending_redraws = 1

\* C4: the cached title, cursor shape and cursor visibility always equal the
\* native window's; right after construction the shape is Text and the cursor
\* is visible.
C4_CacheCoherence ==
    Exists =>
        /\ native # NoNative
        /\ win.title = native.title
        /\ win.current_mouse_cursor = native.cursor_icon
        /\ win.mouse_visible = native.cursor_visible
        /\ (lastOp.op = "new" /\ lastOp.ret.ok) =>
              /\ native.cursor_icon = "Text"
              /\ native.cursor_visible = TRUE
              /\ native.title = lastOp.arg.title

C4_Witness ==
    /\ lastOp.op = "set_mouse_visible"
    /\ win.title = "vim"
    /\ native.title = "vim"
    /\ win.current_mouse_cursor = "Pointer"
    /\ ~win.mouse_visible

\* C5: is_x11 never changes for a window; on X11 set_ime_allowed issues no
\* native call and native IME stays enabled as set at construction; elsewhere
\* each call forwards exactly one native call with the requested value.
C5_ImeSuppression ==
    [][ /\ SameWindow => win'.is_x11 = win.is_x11
        /\ (win' # NoWindow /\ win'.is_x11) => native'.ime_allowed
        /\ lastOp'.op = "set_ime_allowed" =>
              IF win.is_x11
              THEN lastOp'.calls = <<>> /\ native' = native /\ win' = win
              ELSE /\ lastOp'.calls = <<Call("set_ime_allowed", lastOp'.arg.allowed)>>
                   /\ native'.ime_allowed = lastOp'.arg.allowed
      ]_vars

C5_Witness ==
    /\ lastOp.op = "set_ime_allowed"
    /\ lastOp.arg.allowed = FALSE
    /\ win.is_x11
    /\ lastOp.calls = <<>>
    /\ native.ime_allowed

\* C6: on Unix, Window::new hands the environment's activation token to the
\* builder and removes it from the environment; a creation directly following
\* another attaches no token; no token is ever attached to two builders.
C6_TokenOneShot ==
    [][ NewStep =>
          LET token == lastOp'.arg.token
          IN  /\ IsUnix => (token = env_token /\ env_token' = NoToken)
              /\ ~IsUnix => (token = NoToken /\ env_token' = env_token)
              /\ (IsUnix /\ lastOp.op = "new") => token = NoToken
              /\ token # NoToken => token \notin used_tokens
              /\ used_tokens' = used_tokens \cup ({token} \ {NoToken})
              /\ lastOp'.ret.ok => native'.activation_token = token
      ]_vars

C6_Witness ==
    /\ lastOp.op = "new"
    /\ IsUnix
    /\ lastOp.arg.token = NoToken
    /\ used_tokens = {1}
    /\ env_token = NoToken

\* C7: toggle_fullscreen requests borderless fullscreen when the native state
\* is none and none otherwise; two consecutive toggles restore the native
\* fullscreen state; no cached field changes.
C7_FullscreenToggle ==
    [][ lastOp'.op = "toggle_fullscreen" =>
          /\ native.fullscreen = "None" =>
                /\ lastOp'.calls[2] = Call("set_fullscreen", "Borderless")
                /\ native'.fullscreen = "Borderless"
          /\ native.fullscreen # "None" =>
                /\ lastOp'.calls[2] = Call("set_fullscreen", "None")
                /\ native'.fullscreen = "None"
          /\ NumCalls(lastOp'.calls, "set_fullscreen") = 1
          /\ win' = win
          /\ lastOp.op = "toggle_fullscreen" =>
                native'.fullscreen = lastOp.calls[1][2]
      ]_vars

C7_Witness ==
    /\ lastOp.op = "toggle_fullscreen"
    /\ lastOp.twice
    /\ lastOp.calls[1] = Call("fullscreen", "None")
    /\ native.fullscreen = "Borderless"

\* C8: update_ime_position issues exactly one native set-cursor-area call at
\* x = padding_x + column * cell_width, y = padding_y + (line + offset) *
\* cell_height with offset 1 on X11 and 0 elsewhere, size (2 * cell_width,
\* cell_height), and changes neither the Window nor the native window.
C8_ImeAnchor ==
    [][ lastOp'.op = "update_ime_position" =>
          LET p == lastOp'.arg.point
              s == lastOp'.arg.size
              offset == IF win.is_x11 THEN 1 ELSE 0
              area == lastOp'.calls[1][2]
          IN  /\ Len(lastOp'.calls) = 1
              /\ lastOp'.calls[1][1] = "set_ime_cursor_area"
              /\ area.x = s.padding_x + p.column * s.cell_width
              /\ area.y = s.padding_y + (p.line + offset) * s.cell_height
              /\ area.width = 2 * s.cell_width
              /\ area.height = s.cell_height
              /\ (p = [line |-> 0, column |-> 0] /\ s.padding_x = 0
                    /\ s.padding_y = 0 /\ s.cell_width = 10 /\ s.cell_height = 20)
                    => /\ area.x = 0
                       /\ area.y = (IF win.is_x11 THEN 20 ELSE 0)
                       /\ area.width = 20
                       /\ area.height = 20
              /\ win' = win
              /\ native' = native
      ]_vars

C8_Witness ==
    /\ lastOp.op = "update_ime_position"
    /\ win.is_x11
    /\ lastOp.arg.point = [line |-> 1, column |-> 1]
    /\ lastOp.arg.size.padding_x = 3
    /\ lastOp.calls[1][2] = [x |-> 10, y |-> 23, width |-> 14, height |-> 9]

\* C9: a successful Window::new leaves the native window hidden with
\* requested_redraw false, has_frame true, mouse_visible true, cursor Text, IME
\* enabled and transparency hint = (opacity < 1); the native window becomes
\* visible only through set_visible(true).
C9_HiddenConstruction ==
    [][ /\ (NewStep /\ lastOp'.ret.ok) =>
              /\ ~native'.visible
              /\ NumCalls(lastOp'.calls, "set_visible") = 0
              /\ ~win'.requested_redraw
              /\ win'.has_frame
              /\ win'.mouse_visible
              /\ win'.current_mouse_cursor = "Text"
              /\ native'.cursor_icon = "Text"
              /\ native'.ime_allowed
              /\ native'.transparent = (lastOp'.arg.opacity < 100)
        /\ (win' # NoWindow /\ native'.visible /\ ~(SameWindow /\ native.visible))
              => (lastOp'.op = "set_visible" /\ lastOp'.arg.visibility = TRUE)
      ]_vars

C9_Witness ==
    /\ lastOp.op = "new"
    /\ lastOp.ret.ok
    /\ lastOp.arg.opacity = 50
    /\ ~native.visible
    /\ native.transparent
    /\ native.ime_allowed
    /\ native.cursor_icon = "Text"
    /\ ~win.requested_redraw
    /\ win.has_frame
    /\ win.mouse_visible

\* C10: a failed native build makes Window::new return Error::WindowCreation
\* carrying the native error, with a single build attempt, no post-build native
\* call and no Window or native window produced.
C10_CreationFailure ==
    [][ (NewStep /\ lastOp'.arg.outcome # "ok") =>
          /\ lastOp'.ret = [ok |-> FALSE,
                            error |-> [variant |-> "WindowCreation",
                                       inner |-> lastOp'.arg.outcome]]
          /\ lastOp'.calls = <<Call("build", "-")>>
          /\ win' = win
          /\ native' = native
      ]_vars

C10_Witness ==
    /\ lastOp.op = "new"
    /\ lastOp.arg.outcome = "os_error_b"
    /\ ~lastOp.ret.ok
    /\ lastOp.ret.error.inner = "os_error_b"
    /\ ~Exists

====
